---- MODULE Spec2Model ----
(***************************************************************************)
(* Structure segmentation and temporal arrangement of                      *)
(* scripts/audio_analyzer.py.                                              *)
(*                                                                         *)
(* Time is counted in ticks of 0.02 s, so that 0.1 s (the resolution of    *)
(* round(x, 1)) is 5 ticks and no value is ever a rounding tie.  The       *)
(* feature frames are those of sr = 256 Hz (hop_length / sr = 2 s), the    *)
(* coarsest frame rate at which the +/-2-second window of the peak scan    *)
(* still spans one frame.  Energies are percentages 0..100 of the track    *)
(* peak.  Strings are written without diacritics.                          *)
(***************************************************************************)
EXTENDS Integers, Sequences, FiniteSets, TLC

TicksPerSec == 10 * 5
Tenth == TicksPerSec \div 10
Secs(s) == s * TicksPerSec

\* bounds of the input families
MaxSpikes == 2
MinSpikeFrame == 4
MaxSpikeFrame == 16
MaxHeight == 2

\* 0 s, 0.14 s, 2 s, 3 s, 3.28 s, 8 s, 40 s, 130 s, 180 s, 250 s
Durations ==
    {0, 7, Secs(2), Secs(3), 164, Secs(8), Secs(40), Secs(130), Secs(180), Secs(250)}
Bpms == {0, 120}
Envelopes == {"flat", "rise", "fall", "peak"}

\* arrangement inputs: <<duration, bpm, names of the detected elements>>, the
\* window energies and the envelopes behind the section list
ArrInputs ==
    { <<0, 0, {"Kick (seco)", "FX (risers, sweeps)"}>>,
      <<0, 0, {"Pad (drones)"}>>,
      <<Secs(6), 160, {"Kick (seco)", "FX (risers, sweeps)"}>>,
      <<Secs(6), 160, {"Sub Bass (sustentado)"}>>,
      <<Secs(8), 0, {"Kick (seco)", "FX (risers, sweeps)"}>>,
      <<Secs(8), 0, {"Hi-Hat (fechados)"}>>,
      <<Secs(20), 0, {"Kick (seco)", "FX (risers, sweeps)"}>>,
      <<Secs(24), 0, {"Hi-Hat (fechados)"}>>,
      <<Secs(24), 0, {"Pad (drones)"}>> }
ArrTracks == {<<t[1], t[2]>> : t \in ArrInputs}
Detected(d, b) == {t[3] : t \in {x \in ArrInputs : x[1] = d /\ x[2] = b}}
\* inputs of classify_sections_contextual called on its own
MaxSections == 7
ClassifyDurations == {Secs(40), Secs(250)}
ClassifyEnergies == {10, 50, 82, 90}

EnergyLevels == {0, 1, 3}
ArrEnvelopes == {"peak"}

VARIABLES pc, duration, bpm, novelty, rms_smooth, min_frames, threshold, i, peaks,
          merged, bisections, sections, path, err,
          track_elements, eidx, window_energies, merged_blocks, timeline, skipped,
          section_data, results,
          elem_role, covered_names, block_intensity, func,
          elem_energies, order

\* locals of detect_structure_adaptive
scanVars == <<novelty, rms_smooth, min_frames, threshold, i, peaks, merged, bisections>>

\* state of generate_temporal_arrangement_v2
arrVars == <<track_elements, eidx, window_energies, merged_blocks, timeline, skipped>>

\* arguments and return value of determine_element_function called on its own
fnVars == <<elem_role, covered_names, block_intensity, func>>

\* the window energies of each catalog element and the order in which the
\* element loop visits the catalog, when the order is left open
ordVars == <<elem_energies, order>>

\* argument and return value of classify_sections_contextual called on its own,
\* with those of determine_element_function and of the open-order loop
clsVars == <<section_data, results, fnVars, ordVars>>

vars == <<pc, duration, bpm, novelty, rms_smooth, min_frames, threshold, i, peaks,
          merged, bisections, sections, path, err,
          track_elements, eidx, window_energies, merged_blocks, timeline, skipped,
          section_data, results,
          elem_role, covered_names, block_intensity, func,
          elem_energies, order>>

----------------------------------------------------------------------------
\* Python and numpy primitives

Max(a, b) == IF a >= b THEN a ELSE b
Min(a, b) == IF a <= b THEN a ELSE b

\* int(a / b) for b > 0: truncation toward zero
IntDiv(a, b) == IF a >= 0 THEN a \div b ELSE -((-a) \div b)

\* x * pct / 100 on ticks
Frac(x, pct) == (x * pct) \div 100

\* clamp(value, 0, 100)
clamp(value) == Max(0, Min(100, value))

\* round(t, 1): nearest multiple of 0.1 s
Round1(t) == ((2 * t + Tenth) \div (2 * Tenth)) * Tenth

\* a[lo:hi] of an array of length n: the normalised index range
PyIdx(k, n) == IF k < 0 THEN Max(0, n + k) ELSE Min(k, n)

\* sum of f[lo..hi-1], by halves
RECURSIVE SumRange(_, _, _)
SumRange(f, lo, hi) ==
    IF lo >= hi THEN 0
    ELSE IF hi = lo + 1 THEN f[lo]
    ELSE SumRange(f, lo, (lo + hi) \div 2) + SumRange(f, (lo + hi) \div 2, hi)

\* np.argmax(f[lo:hi]): offset of the first maximum
ArgMax(f, lo, hi) ==
    (CHOOSE k \in lo..(hi - 1) :
        \A j \in lo..(hi - 1) : f[j] <= f[k] /\ (j < k => f[j] < f[k])) - lo

\* k-th smallest (k from 0) of the values f[0..n-1]
SortedAt(f, n, k) ==
    CHOOSE v \in {f[x] : x \in 0..(n - 1)} :
        /\ Cardinality({x \in 0..(n - 1) : f[x] < v}) <= k
        /\ Cardinality({x \in 0..(n - 1) : f[x] <= v}) > k

\* 100 * np.percentile(f, q), linear interpolation between order statistics
Percentile100(f, n, q) ==
    LET pos == (n - 1) * q
        lo == pos \div 100
        fr == pos % 100
        hi == Min(lo + 1, n - 1)
        vlo == SortedAt(f, n, lo)
        vhi == SortedAt(f, n, hi)
    IN 100 * vlo + fr * (vhi - vlo)

----------------------------------------------------------------------------
\* Feature streams handed over by the feature extraction

FrameDur == 2 * TicksPerSec

\* number of frames of a track of the given duration
NFrames(d) == 1 + d \div FrameDur

RECURSIVE SpikeSets(_, _)
SpikeSets(P, k) ==
    IF k = 0 THEN {{}}
    ELSE LET S == SpikeSets(P, k - 1) IN S \cup {s \cup {a} : s \in S, a \in P}

\* novelty curves: a background that is zero, or one on every odd frame,
\* with at most MaxSpikes frames raised to a height of 1..MaxHeight
Backgrounds == {"zero", "odd"}

NoveltyCurves(n) ==
    LET P == MinSpikeFrame..Min(n - 1, MaxSpikeFrame) IN
    UNION {{[f \in 0..(n - 1) |->
                IF f \in s THEN h[f]
                ELSE IF bg = "odd" /\ f % 2 = 1 THEN 1 ELSE 0] :
                h \in [s -> 1..MaxHeight], bg \in Backgrounds} : s \in SpikeSets(P, MaxSpikes)}

\* smoothed energy envelopes, in percent of the track peak
Envelope(e, n) ==
    [f \in 0..(n - 1) |->
        CASE e = "flat" -> 50
          [] e = "rise" -> 10 + (80 * f) \div Max(1, n - 1)
          [] e = "fall" -> 90 - (80 * f) \div Max(1, n - 1)
          [] OTHER -> IF 3 * f >= n /\ 3 * f < 2 * n THEN 90 ELSE 20]

----------------------------------------------------------------------------
\* detect_structure_adaptive, step 5: peak picking

MinSec(b) == IF b > 0 THEN Max(Secs(12), (Secs(60) * 16) \div b) ELSE Secs(16)
MinFrames(b) == Max(1, IntDiv(MinSec(b), FrameDur))

ThresholdPct(d) == IF d > Secs(480) THEN 70 ELSE IF d > Secs(300) THEN 75 ELSE 80

HalfWin == IntDiv(Secs(2), FrameDur)

LocalMax(nov, n, k) ==
    LET win_start == Max(0, k - HalfWin)
        win_end == Min(n, k + HalfWin)
    IN win_start + ArgMax(nov, win_start, win_end)

\* the scan resumed at the accepted maximum itself
ScanIterWithoutSkip(nov, n, mf, thr, k, pk) ==
    IF 100 * nov[k] > thr
       /\ (pk = <<>> \/ LocalMax(nov, n, k) - pk[Len(pk)] >= mf)
    THEN <<LocalMax(nov, n, k), Append(pk, LocalMax(nov, n, k))>>
    ELSE <<k + 1, pk>>

\* one iteration of the while loop: <<i, peaks>> after it
ScanIter(nov, n, mf, thr, k, pk) ==
    IF 100 * nov[k] > thr
       /\ (pk = <<>> \/ LocalMax(nov, n, k) - pk[Len(pk)] >= mf)
    THEN <<LocalMax(nov, n, k) + mf, Append(pk, LocalMax(nov, n, k))>>
    ELSE <<k + 1, pk>>

----------------------------------------------------------------------------
\* detect_structure_adaptive, step 6: boundaries

RECURSIVE MergeFrom(_, _, _)
MergeFrom(b, k, acc) ==
    IF k > Len(b) THEN acc
    ELSE MergeFrom(b, k + 1,
                   IF b[k] - acc[Len(acc)] >= Secs(10) THEN Append(acc, b[k]) ELSE acc)

Boundaries(pk, d) == <<0>> \o [k \in 1..Len(pk) |-> pk[k] * FrameDur] \o <<d>>

\* the duration appended whether or not the last boundary is near it
MergeBoundariesAlwaysAppend(b, d) ==
    Append(MergeFrom(b, 2, <<b[1]>>), d)

MergeBoundaries(b, d) ==
    LET m == MergeFrom(b, 2, <<b[1]>>) IN
    IF m[Len(m)] < d - Secs(3) THEN Append(m, d)
    ELSE [m EXCEPT ![Len(m)] = d]

\* the minimum taken one section too low
MinSectionsOffByOne(d) == Max(2, IntDiv(d, Secs(120)) + 1)

MinSections(d) == Max(3, IntDiv(d, Secs(120)) + 2)

\* index (from 1) of the first longest segment of m
RECURSIVE LongestFrom(_, _, _, _)
LongestFrom(m, j, idx, dur) ==
    IF j >= Len(m) THEN idx
    ELSE IF m[j + 1] - m[j] > dur
         THEN LongestFrom(m, j + 1, j, m[j + 1] - m[j])
         ELSE LongestFrom(m, j + 1, idx, dur)
LongestIdx(m) == LongestFrom(m, 1, 1, 0)

InsertAt(s, k, x) == SubSeq(s, 1, k) \o <<x>> \o SubSeq(s, k + 1, Len(s))

Bisect(m) ==
    LET li == LongestIdx(m) IN InsertAt(m, li, (m[li] + m[li + 1]) \div 2)

----------------------------------------------------------------------------
\* classify_sections_contextual

\* the two comparisons of the trend exchanged
TrendSwapped(s, rms, n) ==
    LET start_frame == PyIdx(IntDiv(s.start, FrameDur), n)
        end_frame == PyIdx(Min(IntDiv(s.end, FrameDur), n), n)
        len == Max(0, end_frame - start_frame)
        firstLen == len \div 3
        lastLo == start_frame + (2 * len) \div 3
        firstSum == SumRange(rms, start_frame, start_frame + firstLen)
        lastSum == SumRange(rms, lastLo, end_frame)
        lastLen == end_frame - lastLo
    IN IF len > 10
       THEN <<100 * lastSum * firstLen < 80 * firstSum * lastLen,
              100 * lastSum * firstLen > 115 * firstSum * lastLen>>
       ELSE <<FALSE, FALSE>>

\* internal trend of one section: <<rising, falling>>
Trend(s, rms, n) ==
    LET start_frame == PyIdx(IntDiv(s.start, FrameDur), n)
        end_frame == PyIdx(Min(IntDiv(s.end, FrameDur), n), n)
        len == Max(0, end_frame - start_frame)
        firstLen == len \div 3
        lastLo == start_frame + (2 * len) \div 3
        firstSum == SumRange(rms, start_frame, start_frame + firstLen)
        lastSum == SumRange(rms, lastLo, end_frame)
        lastLen == end_frame - lastLo
    IN IF len > 10
       THEN <<100 * lastSum * firstLen > 115 * firstSum * lastLen,
              100 * lastSum * firstLen < 80 * firstSum * lastLen>>
       ELSE <<FALSE, FALSE>>

\* twice np.median of the energies
Median2(energies) ==
    LET n == Len(energies)
        f == [k \in 0..(n - 1) |-> energies[k + 1]]
    IN IF n % 2 = 1 THEN 2 * SortedAt(f, n, n \div 2)
       ELSE SortedAt(f, n, n \div 2 - 1) + SortedAt(f, n, n \div 2)

\* the first drop numbered like the later ones
DropNameFromOne(k) ==
    <<"Drop 1", "Drop 2", "Drop 3", "Drop 4", "Drop 5", "Drop 6", "Drop 7", "Drop 8">>[k]

DropName(k) ==
    IF k = 1 THEN "Drop / Peak"
    ELSE <<"Drop 2", "Drop 3", "Drop 4", "Drop 5", "Drop 6", "Drop 7", "Drop 8">>[k - 1]

\* the last branch naming a drop without counting it
ClassifyHighNoCount(energy, prev_energy, next_energy, rising, med2, dc) ==
    LET is_local_peak == energy > prev_energy + 5 /\ energy > next_energy + 5 IN
    IF rising /\ energy - prev_energy > 10
    THEN <<"Build-up", "Construcao de tensao com adicao progressiva de camadas e energia", dc>>
    ELSE IF is_local_peak \/ (~rising /\ 5 * energy > 3 * med2)
    THEN <<DropName(dc + 1),
           IF dc + 1 = 1
           THEN "Momento de maxima energia e impacto com todos os elementos ativos"
           ELSE "Retorno ao pico de energia com novos elementos",
           dc + 1>>
    ELSE IF rising
    THEN <<"Build-up", "Construcao progressiva de energia e tensao", dc>>
    ELSE <<DropName(dc + 1),
           IF dc + 1 = 1 THEN "Momento de maxima energia e impacto" ELSE "Pico de energia",
           dc>>

\* high energy (> 60): <<name, description, drop_count after>>
ClassifyHigh(energy, prev_energy, next_energy, rising, med2, dc) ==
    LET is_local_peak == energy > prev_energy + 5 /\ energy > next_energy + 5 IN
    IF rising /\ energy - prev_energy > 10
    THEN <<"Build-up", "Construcao de tensao com adicao progressiva de camadas e energia", dc>>
    ELSE IF is_local_peak \/ (~rising /\ 5 * energy > 3 * med2)
    THEN <<DropName(dc + 1),
           IF dc + 1 = 1
           THEN "Momento de maxima energia e impacto com todos os elementos ativos"
           ELSE "Retorno ao pico de energia com novos elementos",
           dc + 1>>
    ELSE IF rising
    THEN <<"Build-up", "Construcao progressiva de energia e tensao", dc>>
    ELSE <<DropName(dc + 1),
           IF dc + 1 = 1 THEN "Momento de maxima energia e impacto" ELSE "Pico de energia",
           dc + 1>>

\* low energy (< 30); k is the index from 0, start / (duration + 1e-10) the position ratio
ClassifyLow(k, total, start, d, rising, dc) ==
    IF 100 * start <= 15 * d /\ k <= 1
    THEN <<"Intro", "Atmosfera inicial com elementos sutis", dc>>
    ELSE IF 100 * start > 85 * d /\ k >= total - 2
    THEN <<"Outro", "Dissolucao gradual dos elementos", dc>>
    ELSE IF rising
    THEN <<"Build-up", "Crescimento gradual a partir de momento de respiro", dc>>
    ELSE <<"Breakdown", "Alivio de tensao, momento de respiracao e reconexao emocional", dc>>

\* medium energy (30..60)
ClassifyMid(energy, prev_energy, next_energy, rising, falling, start, d, med2, dc) ==
    LET is_local_peak == energy > prev_energy + 5 /\ energy > next_energy + 5
        is_local_valley == energy < prev_energy - 5 /\ energy < next_energy - 5
    IN
    IF rising /\ next_energy > energy + 10
    THEN <<"Build-up", "Crescimento progressivo de energia e tensao", dc>>
    ELSE IF falling /\ prev_energy > energy + 10
    THEN <<"Breakdown", "Reducao de elementos criando espaco e expectativa", dc>>
    ELSE IF is_local_valley
    THEN <<"Breakdown", "Transicao com reducao momentanea de energia", dc>>
    ELSE IF is_local_peak
    THEN <<"Desenvolvimento", "Progressao energetica com evolucao dos elementos", dc>>
    ELSE IF rising
    THEN <<"Build-up", "Crescimento gradual de energia preparando o proximo pico", dc>>
    ELSE IF falling
    THEN <<"Breakdown", "Reducao gradual de energia", dc>>
    ELSE IF 100 * start <= 35 * d
    THEN <<"Desenvolvimento", "Evolucao continua do groove com adicao de camadas", dc>>
    ELSE IF 2 * energy > med2
    THEN <<"Desenvolvimento", "Manutencao do groove com variacoes sutis", dc>>
    ELSE <<"Breakdown", "Momento de menor intensidade entre secoes", dc>>

\* the high tier starting above 85
ClassifyInteriorHighAbove85(sd, k, total, d, tr, med2, dc) ==
    LET energy == sd[k + 1].energy
        prev_energy == sd[k].energy
        next_energy == IF k + 1 < total THEN sd[k + 2].energy ELSE energy
        rising == tr[k + 1][1]
        falling == tr[k + 1][2]
    IN IF energy > 85
       THEN ClassifyHigh(energy, prev_energy, next_energy, rising, med2, dc)
       ELSE IF energy < 30
       THEN ClassifyLow(k, total, sd[k + 1].start, d, rising, dc)
       ELSE ClassifyMid(energy, prev_energy, next_energy, rising, falling,
                        sd[k + 1].start, d, med2, dc)

ClassifyInterior(sd, k, total, d, tr, med2, dc) ==
    LET energy == sd[k + 1].energy
        prev_energy == sd[k].energy
        next_energy == IF k + 1 < total THEN sd[k + 2].energy ELSE energy
        rising == tr[k + 1][1]
        falling == tr[k + 1][2]
    IN IF energy > 60
       THEN ClassifyHigh(energy, prev_energy, next_energy, rising, med2, dc)
       ELSE IF energy < 30
       THEN ClassifyLow(k, total, sd[k + 1].start, d, rising, dc)
       ELSE ClassifyMid(energy, prev_energy, next_energy, rising, falling,
                        sd[k + 1].start, d, med2, dc)

\* the loop over the interior sections, k from 1 to total - 2
RECURSIVE InteriorFrom(_, _, _, _, _, _, _)
InteriorFrom(sd, k, total, d, tr, med2, dc) ==
    IF k > total - 2 THEN <<>>
    ELSE LET r == ClassifyInterior(sd, k, total, d, tr, med2, dc)
         IN <<<<r[1], r[2]>>>> \o InteriorFrom(sd, k + 1, total, d, tr, med2, r[3])

\* two sections falling into the single-section case
ClassifyTwoAsSingle ==
    << <<"Desenvolvimento", "Secao unica abrangendo toda a musica">> >>

ClassifyTwo ==
    << <<"Intro", "Primeira metade da musica com apresentacao dos elementos">>,
       <<"Outro", "Segunda metade com resolucao dos elementos">> >>

\* the first and the last section named by their energy instead of being forced
ClassifyWithTrendsUnforced(sd, d, tr) ==
    LET total == Len(sd)
        energies == [k \in 1..total |-> sd[k].energy]
    IN IF total = 0 THEN <<>>
       ELSE IF total = 1
       THEN << <<"Desenvolvimento", "Secao unica abrangendo toda a musica">> >>
       ELSE IF total = 2 THEN ClassifyTwo
       ELSE << IF energies[1] > 60
               THEN <<"Drop / Peak", "Momento de maxima energia e impacto">>
               ELSE <<"Intro",
                      "Apresentacao dos elementos iniciais, estabelecendo groove e atmosfera">> >>
            \o InteriorFrom(sd, 1, total, d, tr, Median2(energies), 0)
            \o << IF energies[total] > 60
                  THEN <<"Desenvolvimento", "Progressao musical">>
                  ELSE <<"Outro",
                         "Encerramento gradual com remocao de elementos para mixagem DJ-friendly">> >>

\* classification given the trends: one <<name, description>> per section
ClassifyWithTrends(sd, d, tr) ==
    LET total == Len(sd)
        energies == [k \in 1..total |-> sd[k].energy]
    IN IF total = 0 THEN <<>>
       ELSE IF total = 1
       THEN << <<"Desenvolvimento", "Secao unica abrangendo toda a musica">> >>
       ELSE IF total = 2 THEN ClassifyTwo
       ELSE << <<"Intro",
                 IF tr[1][1]
                 THEN "Apresentacao gradual dos elementos com construcao de atmosfera"
                 ELSE "Apresentacao dos elementos iniciais, estabelecendo groove e atmosfera">> >>
            \o InteriorFrom(sd, 1, total, d, tr, Median2(energies), 0)
            \o << <<"Outro",
                    "Encerramento gradual com remocao de elementos para mixagem DJ-friendly">> >>

classify_sections_contextual(sd, d, rms, n) ==
    ClassifyWithTrends(sd, d, [k \in 1..Len(sd) |-> Trend(sd[k], rms, n)])

----------------------------------------------------------------------------
\* detect_structure_adaptive, step 7: section energies and Section records

\* clamp(int(np.mean(rms[a:b]) * 100)) if the slice is not empty, else the default
SliceEnergy(rms, n, a, b, default) ==
    LET lo == PyIdx(a, n)
        hi == PyIdx(b, n)
    IN IF hi > lo THEN clamp(SumRange(rms, lo, hi) \div (hi - lo)) ELSE default

SectionEnergy(start_t, end_t, rms, n) ==
    LET sf == IntDiv(start_t, FrameDur)
        ef == Min(IntDiv(end_t, FrameDur), n)
    IN IF sf < ef THEN SliceEnergy(rms, n, sf, ef, 50) ELSE 50

SectionData(m, rms, n) ==
    [k \in 1..(Len(m) - 1) |->
        [start |-> Round1(m[k]), end |-> Round1(m[k + 1]),
         energy |-> SectionEnergy(m[k], m[k + 1], rms, n)]]

Section(name, start, end, function, energy, entering, exiting) ==
    [name |-> name, start |-> start, end |-> end, function |-> function,
     energy |-> energy, elements_entering |-> entering, elements_exiting |-> exiting]

AdaptiveSections(m, d, rms, n) ==
    LET sd == SectionData(m, rms, n)
        cls == classify_sections_contextual(sd, d, rms, n)
    IN [k \in 1..Len(sd) |->
          Section(cls[k][1], sd[k].start, sd[k].end, cls[k][2], sd[k].energy, <<>>, <<>>)]

----------------------------------------------------------------------------
\* analyze_structure_detailed: the fixed six-section template and its except branch

\* index of the first frame above the threshold, -1 if there is none
FirstAbove(rms, n, thr) ==
    LET above == {k \in 0..(n - 1) : 100 * rms[k] > thr} IN
    IF above = {} THEN -1 ELSE CHOOSE k \in above : \A j \in above : k <= j

IntroEnd(d, rms, n) ==
    LET k == FirstAbove(rms, n, Percentile100(rms, n, 75)) IN
    IF k <= 0 THEN Frac(d, 10) ELSE k * FrameDur

BuildupEnd(d, rms, n) == IntroEnd(d, rms, n) + Frac(d - IntroEnd(d, rms, n), 15)

PeakTime(d, rms, n) ==
    LET lo == PyIdx(IntDiv(BuildupEnd(d, rms, n), FrameDur), n)
        hi == PyIdx(IntDiv(Frac(d, 60), FrameDur), n)
    IN IF hi > lo THEN BuildupEnd(d, rms, n) + ArgMax(rms, lo, hi) * FrameDur
       ELSE Frac(d, 30)

DropEnd(d, rms, n) == PeakTime(d, rms, n) + Frac(d - PeakTime(d, rms, n), 35)

BreakdownEnd(d, rms, n) == DropEnd(d, rms, n) + Frac(d - DropEnd(d, rms, n), 30)

Var2End(d, rms, n) == BreakdownEnd(d, rms, n) + Frac(d - BreakdownEnd(d, rms, n), 50)

TemplateSections(d, rms, n) ==
    LET intro_end == IntroEnd(d, rms, n)
        buildup_end == BuildupEnd(d, rms, n)
        drop_end == DropEnd(d, rms, n)
        breakdown_end == BreakdownEnd(d, rms, n)
        var2_end == Var2End(d, rms, n)
        fr(t) == IntDiv(t, FrameDur)
    IN << Section("Intro", 0, Round1(intro_end),
                  "Apresentacao gradual dos elementos, criacao de atmosfera",
                  SliceEnergy(rms, n, 0, Max(1, fr(intro_end)), 0),
                  <<"kick (sutil)", "pad atmosferico", "hi-hats">>, <<>>),
          Section("Build-up", Round1(intro_end), Round1(buildup_end),
                  "Construcao de tensao, adicao progressiva de camadas",
                  SliceEnergy(rms, n, fr(intro_end), fr(buildup_end), 50),
                  <<"snare/clap", "bassline", "riser FX">>, <<>>),
          Section("Drop / Peak", Round1(buildup_end), Round1(drop_end),
                  "Climax da musica, maxima energia e impacto",
                  SliceEnergy(rms, n, fr(buildup_end), fr(drop_end), 85),
                  <<"lead synth", "bass pesado", "percussion completa">>, <<"riser FX">>),
          Section("Breakdown", Round1(drop_end), Round1(breakdown_end),
                  "Alivio de tensao, momento de respiracao",
                  SliceEnergy(rms, n, fr(drop_end), fr(breakdown_end), 35),
                  <<"pad atmosferico", "FX ambientes">>,
                  <<"kick", "bass pesado", "percussion">>),
          Section("Segunda Variacao", Round1(breakdown_end), Round1(var2_end),
                  "Retorno da energia com variacoes nos elementos",
                  SliceEnergy(rms, n, fr(breakdown_end), fr(Min(var2_end, d)), 75),
                  <<"elementos do drop com variacoes">>, <<>>),
          Section("Outro", Round1(var2_end), Round1(d),
                  "Encerramento gradual, remocao de elementos",
                  SliceEnergy(rms, n, fr(Min(var2_end, d - Secs(1))), n, 20),
                  <<>>, <<"lead synth", "bass", "percussion", "kick">>) >>

\* the except branch without the rounding of the duration
FullTrackSectionsUnrounded(d) ==
    << Section("Full Track", 0, d, "Faixa completa", 50, <<>>, <<>>) >>

FullTrackSections(d) ==
    << Section("Full Track", 0, Round1(d), "Faixa completa", 50, <<>>, <<>>) >>

----------------------------------------------------------------------------
\* determine_element_function.  The substring tests on the lower-cased
\* section names are tabulated over the names the program produces.

DropNames == {"Drop / Peak", "Drop 2", "Drop 3", "Drop 4", "Drop 5", "Drop 6", "Drop 7", "Drop 8"}

Covers(covered, names) == \E k \in 1..Len(covered) : covered[k] \in names

\* the intensity test of the groove role made non-strict
determine_element_function_ge(role, covered, intensity) ==
    LET has_drop == Covers(covered, DropNames)
        has_breakdown == Covers(covered, {"Breakdown"})
        has_buildup == Covers(covered, {"Build-up"})
        has_intro == Covers(covered, {"Intro"})
        has_outro == Covers(covered, {"Outro"})
    IN IF role = "impacto" THEN "transicao"
       ELSE IF role = "base"
       THEN (IF has_drop THEN "energia" ELSE IF has_buildup THEN "tensao" ELSE "groove")
       ELSE IF role = "groove"
       THEN (IF has_drop /\ intensity >= 60 THEN "energia"
             ELSE IF has_buildup THEN "tensao" ELSE "groove")
       ELSE IF role = "textura"
       THEN (IF has_breakdown \/ has_intro \/ has_outro THEN "textura"
             ELSE IF has_buildup THEN "tensao" ELSE "textura")
       ELSE "groove"

determine_element_function(role, covered, intensity) ==
    LET has_drop == Covers(covered, DropNames)
        has_breakdown == Covers(covered, {"Breakdown"})
        has_buildup == Covers(covered, {"Build-up"})
        has_intro == Covers(covered, {"Intro"})
        has_outro == Covers(covered, {"Outro"})
    IN IF role = "impacto" THEN "transicao"
       ELSE IF role = "base"
       THEN (IF has_drop THEN "energia" ELSE IF has_buildup THEN "tensao" ELSE "groove")
       ELSE IF role = "groove"
       THEN (IF has_drop /\ intensity > 60 THEN "energia"
             ELSE IF has_buildup THEN "tensao" ELSE "groove")
       ELSE IF role = "textura"
       THEN (IF has_breakdown \/ has_intro \/ has_outro THEN "textura"
             ELSE IF has_buildup THEN "tensao" ELSE "textura")
       ELSE "groove"

----------------------------------------------------------------------------
\* generate_temporal_arrangement_v2: windows and the element catalog

WindowSec(b) == IF b > 0 THEN Max(Secs(2), 2 * ((Secs(60) * 4) \div b)) ELSE Secs(4)
FramesPerWindow(b) == Max(1, IntDiv(WindowSec(b), FrameDur))
NWindows(d, b) == Max(1, NFrames(d) \div FramesPerWindow(b))

Element(name, category, threshold_pct, role) ==
    [name |-> name, category |-> category, threshold_pct |-> threshold_pct, role |-> role]

\* the descriptors in the order in which the code appends them
ElementTable ==
    << Element("Kick (seco)", "Drums", 45, "base"),
       Element("Snare / Clap (snare)", "Drums", 42, "groove"),
       Element("Hi-Hat (fechados)", "Drums", 35, "groove"),
       Element("Sub Bass (sustentado)", "Bass", 40, "base"),
       Element("Pad (drones)", "Synths", 35, "textura"),
       Element("FX (risers, sweeps)", "Synths", 85, "impacto") >>

DefaultElements ==
    << Element("Kick", "Drums", 45, "base"),
       Element("Hi-Hat", "Drums", 40, "groove"),
       Element("Bass", "Bass", 40, "base"),
       Element("Synth", "Synths", 40, "groove") >>

\* track_elements for the set of descriptors whose element was detected
RECURSIVE CatalogFrom(_, _)
CatalogFrom(present, k) ==
    IF k > Len(ElementTable) THEN <<>>
    ELSE (IF ElementTable[k].name \in present THEN <<ElementTable[k]>> ELSE <<>>)
         \o CatalogFrom(present, k + 1)

Catalog(present) ==
    IF CatalogFrom(present, 1) = <<>> THEN DefaultElements ELSE CatalogFrom(present, 1)

----------------------------------------------------------------------------
\* generate_temporal_arrangement_v2: presence blocks of one element

MaxOf(we, nw) == CHOOSE v \in {we[w] : w \in 0..(nw - 1)} : \A w \in 0..(nw - 1) : we[w] <= v

\* np.max(window_energies) < 1e-10
IsSilent(we, nw) == MaxOf(we, nw) = 0

\* presence at or above the threshold
PresenceAtOrAbove(we, nw, pct) ==
    LET thr == Percentile100(we, nw, pct) IN [w \in 0..(nw - 1) |-> 100 * we[w] >= thr]

Presence(we, nw, pct) ==
    LET thr == Percentile100(we, nw, pct) IN [w \in 0..(nw - 1) |-> 100 * we[w] > thr]

\* maximal runs of present windows, as <<first, one past last>>
RECURSIVE RunsFrom(_, _, _, _, _, _)
RunsFrom(presence, nw, w, in_block, bstart, blocks) ==
    IF w >= nw THEN (IF in_block THEN Append(blocks, <<bstart, nw>>) ELSE blocks)
    ELSE IF presence[w] /\ ~in_block THEN RunsFrom(presence, nw, w + 1, TRUE, w, blocks)
    ELSE IF ~presence[w] /\ in_block
         THEN RunsFrom(presence, nw, w + 1, FALSE, bstart, Append(blocks, <<bstart, w>>))
    ELSE RunsFrom(presence, nw, w + 1, in_block, bstart, blocks)

Runs(presence, nw) == RunsFrom(presence, nw, 0, FALSE, 0, <<>>)

RECURSIVE MergeGapsFrom(_, _, _)
MergeGapsFrom(blocks, k, acc) ==
    IF k > Len(blocks) THEN acc
    ELSE MergeGapsFrom(blocks, k + 1,
            IF acc # <<>> /\ blocks[k][1] - acc[Len(acc)][2] <= 1
            THEN [acc EXCEPT ![Len(acc)] = <<acc[Len(acc)][1], blocks[k][2]>>]
            ELSE Append(acc, blocks[k]))

\* the runs left as they are
MergeGapsNever(blocks) == blocks

MergeGaps(blocks) == MergeGapsFrom(blocks, 1, <<>>)

\* the minimum of one window granted to every role
MinWinOne(role) == 1

MinWin(role) == IF role = "impacto" THEN 1 ELSE 2

FilterShort(blocks, min_win) == SelectSeq(blocks, LAMBDA b : b[2] - b[1] >= min_win)

MergedBlocks(elem, we, nw) ==
    FilterShort(MergeGaps(Runs(Presence(we, nw, elem.threshold_pct), nw)), MinWin(elem.role))

\* clamp(int(np.mean(block_e) / (np.max(window_energies) + 1e-10) * 100))
Intensity(we, nw, bs, be) ==
    LET num == 100 * SumRange(we, bs, be)
        den == (be - bs) * MaxOf(we, nw)
    IN clamp(IF num % den = 0 THEN num \div den - 1 ELSE num \div den)

SumSquares(we, bs, be) == SumRange([w \in DOMAIN we |-> we[w] * we[w]], bs, be)

\* np.std(block_e) / (np.mean(block_e) + 1e-10) > 0.5
Intermittent(we, bs, be) ==
    4 * (be - bs) * SumSquares(we, bs, be) > 5 * SumRange(we, bs, be) * SumRange(we, bs, be)

Behavior(we, bs, be, start_sec, end_sec, window_sec) ==
    IF end_sec - start_sec < window_sec * 3 THEN "pontual"
    ELSE IF Intermittent(we, bs, be) THEN "intermitente"
    ELSE "continuo"

\* names of the sections the block overlaps, without repeats, in section order
RECURSIVE CoveredFrom(_, _, _, _, _)
CoveredFrom(secs, k, start_sec, end_sec, covered) ==
    IF k > Len(secs) THEN covered
    ELSE CoveredFrom(secs, k + 1, start_sec, end_sec,
            IF /\ start_sec < secs[k].end
               /\ end_sec > secs[k].start
               /\ \A j \in 1..Len(covered) : covered[j] # secs[k].name
            THEN Append(covered, secs[k].name)
            ELSE covered)

BlockItem(elem, we, nw, blk, d, b, secs) ==
    LET start_sec == Round1(blk[1] * WindowSec(b))
        end_sec == Round1(Min(blk[2] * WindowSec(b), d))
        intensity == Intensity(we, nw, blk[1], blk[2])
        covered == CoveredFrom(secs, 1, start_sec, end_sec, <<>>)
    IN [category |-> elem.category, element |-> elem.name,
        start |-> start_sec, end |-> end_sec, sections |-> covered,
        intensity |-> intensity, role |-> elem.role,
        behavior |-> Behavior(we, blk[1], blk[2], start_sec, end_sec, WindowSec(b)),
        function |-> determine_element_function(elem.role, covered, intensity)]

\* the blocks of one element after the merge and the filter; none for a silent element
ElementBlocks(elem, we, nw) ==
    IF IsSilent(we, nw) THEN <<>> ELSE MergedBlocks(elem, we, nw)

ElementItems(elem, we, nw, d, b, secs) ==
    LET blocks == ElementBlocks(elem, we, nw) IN
    [k \in 1..Len(blocks) |-> BlockItem(elem, we, nw, blocks[k], d, b, secs)]

----------------------------------------------------------------------------
\* the final sort of the timeline: stable, by (category rank, name, start)

\* the categories ranked alphabetically
CatOrderAlphabetical(category) ==
    CASE category = "Bass" -> 0
      [] category = "Drums" -> 1
      [] category = "Synths" -> 2
      [] OTHER -> 99

CatOrder(category) ==
    CASE category = "Synths" -> 0
      [] category = "Drums" -> 1
      [] category = "Bass" -> 2
      [] OTHER -> 99

\* the element names in the order of Python's string comparison
NameOrder ==
    << "Bass", "FX (risers, sweeps)", "Hi-Hat", "Hi-Hat (fechados)", "Kick", "Kick (seco)",
       "Pad (drones)", "Snare / Clap (snare)", "Sub Bass (sustentado)", "Synth" >>

NameRank(name) == CHOOSE k \in 1..Len(NameOrder) : NameOrder[k] = name

\* the sort key without the element name
KeyLessWithoutName(a, b) ==
    \/ CatOrder(a.category) < CatOrder(b.category)
    \/ /\ CatOrder(a.category) = CatOrder(b.category)
       /\ a.start < b.start

KeyLess(a, b) ==
    \/ CatOrder(a.category) < CatOrder(b.category)
    \/ /\ CatOrder(a.category) = CatOrder(b.category)
       /\ \/ NameRank(a.element) < NameRank(b.element)
          \/ NameRank(a.element) = NameRank(b.element) /\ a.start < b.start

\* insert x after the last item that is not greater than it
RECURSIVE InsertSorted(_, _)
InsertSorted(sorted, x) ==
    IF sorted = <<>> THEN <<x>>
    ELSE IF KeyLess(x, sorted[Len(sorted)])
         THEN Append(InsertSorted(SubSeq(sorted, 1, Len(sorted) - 1), x), sorted[Len(sorted)])
         ELSE Append(sorted, x)

RECURSIVE SortFrom(_, _, _)
SortFrom(items, k, acc) ==
    IF k > Len(items) THEN acc ELSE SortFrom(items, k + 1, InsertSorted(acc, items[k]))

SortTimeline(items) == SortFrom(items, 1, <<>>)

----------------------------------------------------------------------------
\* _fill_section_elements

Names(items) == [k \in 1..Len(items) |-> items[k].element]

First8(s) == SubSeq(s, 1, Min(8, Len(s)))

Entering(sec, items) ==
    Names(SelectSeq(items, LAMBDA it : sec.start <= it.start /\ it.start < sec.end))

\* exiting counted also for a block that started inside the section
ExitingWithoutStartTest(sec, items) ==
    Names(SelectSeq(items, LAMBDA it : sec.start < it.end /\ it.end <= sec.end))

Exiting(sec, items) ==
    Names(SelectSeq(items, LAMBDA it :
            sec.start < it.end /\ it.end <= sec.end /\ it.start < sec.start))

\* the list rebuilt from the sections in which some element enters or exits
FillSectionElementsSkipping(secs, items) ==
    IF secs = <<>> \/ items = <<>> THEN secs
    ELSE LET filled == [k \in 1..Len(secs) |->
                 [secs[k] EXCEPT !.elements_entering = First8(Entering(secs[k], items)),
                                 !.elements_exiting = First8(Exiting(secs[k], items))]]
         IN SelectSeq(filled, LAMBDA sec :
                 sec.elements_entering # <<>> \/ sec.elements_exiting # <<>>)

FillSectionElements(secs, items) ==
    IF secs = <<>> \/ items = <<>> THEN secs
    ELSE [k \in 1..Len(secs) |->
            [secs[k] EXCEPT !.elements_entering = First8(Entering(secs[k], items)),
                            !.elements_exiting = First8(Exiting(secs[k], items))]]

----------------------------------------------------------------------------
\* detect_structure_adaptive as a process.  rms_smooth is computed in step 2
\* but first read in step 7; the model draws it where it is first read.

Init ==
    /\ pc = "start"
    /\ duration \in Durations
    /\ bpm \in Bpms
    /\ novelty = <<>>
    /\ rms_smooth = <<>>
    /\ min_frames = 0
    /\ threshold = 0
    /\ i = 0
    /\ peaks = <<>>
    /\ merged = <<>>
    /\ bisections = 0
    /\ sections = <<>>
    /\ path = "none"
    /\ err = "none"
    /\ track_elements = <<>>
    /\ eidx = 0
    /\ window_energies = <<>>
    /\ merged_blocks = <<>>
    /\ timeline = <<>>
    /\ skipped = {}
    /\ section_data = <<>>
    /\ results = <<>>
    /\ elem_role = "none"
    /\ covered_names = <<>>
    /\ block_intensity = 0
    /\ func = "none"
    /\ elem_energies = <<>>
    /\ order = <<>>

\* steps 1-5 up to the loop: the novelty curve, min_frames and the threshold
ExtractFeatures ==
    /\ pc = "start"
    /\ novelty' \in NoveltyCurves(NFrames(duration))
    /\ min_frames' = MinFrames(bpm)
    /\ threshold' = Percentile100(novelty', NFrames(duration), ThresholdPct(duration))
    /\ i' = MinFrames(bpm)
    /\ peaks' = <<>>
    /\ pc' = "scan"
    /\ UNCHANGED <<duration, bpm, rms_smooth, merged, bisections, sections, path, err>>
    /\ UNCHANGED arrVars
    /\ UNCHANGED clsVars

\* the feature extraction raises (invalid or non-finite audio): caught at line 2165
FeatureError ==
    /\ pc = "start"
    /\ pc' = "fallback"
    /\ err' = "FeatureError"
    /\ UNCHANGED <<duration, bpm, novelty, rms_smooth, min_frames, threshold, i, peaks,
                   merged, bisections, sections, path>>
    /\ UNCHANGED arrVars
    /\ UNCHANGED clsVars

ScanStep ==
    /\ pc = "scan"
    /\ i < NFrames(duration) - min_frames
    /\ i' = ScanIter(novelty, NFrames(duration), min_frames, threshold, i, peaks)[1]
    /\ peaks' = ScanIter(novelty, NFrames(duration), min_frames, threshold, i, peaks)[2]
    /\ UNCHANGED <<pc, duration, bpm, novelty, rms_smooth, min_frames, threshold,
                   merged, bisections, sections, path, err>>
    /\ UNCHANGED arrVars
    /\ UNCHANGED clsVars

ScanDone ==
    /\ pc = "scan"
    /\ ~(i < NFrames(duration) - min_frames)
    /\ pc' = "merge"
    /\ UNCHANGED <<duration, bpm, novelty, rms_smooth, min_frames, threshold, i, peaks,
                   merged, bisections, sections, path, err>>
    /\ UNCHANGED arrVars
    /\ UNCHANGED clsVars

MergeStep ==
    /\ pc = "merge"
    /\ merged' = MergeBoundaries(Boundaries(peaks, duration), duration)
    /\ pc' = "bisect"
    /\ UNCHANGED <<duration, bpm, novelty, rms_smooth, min_frames, threshold, i, peaks,
                   bisections, sections, path, err>>
    /\ UNCHANGED arrVars
    /\ UNCHANGED clsVars

BisectStep ==
    /\ pc = "bisect"
    /\ Len(merged) < MinSections(duration) + 1
    /\ Len(merged) >= 2
    /\ merged' = Bisect(merged)
    /\ bisections' = bisections + 1
    /\ UNCHANGED <<pc, duration, bpm, novelty, rms_smooth, min_frames, threshold, i, peaks,
                   sections, path, err>>
    /\ UNCHANGED arrVars
    /\ UNCHANGED clsVars

\* merged[longest_idx + 1] of a one-element list: IndexError, caught at line 2165
BisectRaises ==
    /\ pc = "bisect"
    /\ Len(merged) < MinSections(duration) + 1
    /\ Len(merged) < 2
    /\ pc' = "fallback"
    /\ err' = "IndexError"
    /\ UNCHANGED <<duration, bpm, novelty, rms_smooth, min_frames, threshold, i, peaks,
                   merged, bisections, sections, path>>
    /\ UNCHANGED arrVars
    /\ UNCHANGED clsVars

ClassifySections ==
    /\ pc = "bisect"
    /\ ~(Len(merged) < MinSections(duration) + 1)
    /\ \E e \in Envelopes :
         /\ rms_smooth' = Envelope(e, NFrames(duration))
         /\ sections' = AdaptiveSections(merged, duration, rms_smooth', NFrames(duration))
    /\ path' = "adaptive"
    /\ pc' = "done"
    /\ UNCHANGED <<duration, bpm, novelty, min_frames, threshold, i, peaks,
                   merged, bisections, err>>
    /\ UNCHANGED arrVars
    /\ UNCHANGED clsVars

\* analyze_structure_detailed, try branch
Template ==
    /\ pc = "fallback"
    /\ \E e \in Envelopes :
         /\ rms_smooth' = Envelope(e, NFrames(duration))
         /\ sections' = TemplateSections(duration, rms_smooth', NFrames(duration))
    /\ path' = "template"
    /\ pc' = "done"
    /\ UNCHANGED <<duration, bpm, novelty, min_frames, threshold, i, peaks,
                   merged, bisections, err>>
    /\ UNCHANGED arrVars
    /\ UNCHANGED clsVars

\* analyze_structure_detailed, except branch
FullTrack ==
    /\ pc = "fallback"
    /\ sections' = FullTrackSections(duration)
    /\ path' = "fulltrack"
    /\ pc' = "done"
    /\ UNCHANGED <<duration, bpm, novelty, rms_smooth, min_frames, threshold, i, peaks,
                   merged, bisections, err>>
    /\ UNCHANGED arrVars
    /\ UNCHANGED clsVars

Next ==
    \/ ExtractFeatures
    \/ FeatureError
    \/ ScanStep
    \/ ScanDone
    \/ MergeStep
    \/ BisectStep
    \/ BisectRaises
    \/ ClassifySections
    \/ Template
    \/ FullTrack

Spec == Init /\ [][Next]_vars

----------------------------------------------------------------------------
\* Properties of the section list returned by detect_structure_adaptive

\* C1: for every input the returned Section list has strictly increasing
\* boundaries, starts at 0, ends at the (rounded) duration, and each end
\* is the next start.
C1_Tiling ==
    pc = "done" =>
        /\ Len(sections) >= 1
        /\ sections[1].start = 0
        /\ sections[Len(sections)].end = Round1(duration)
        /\ \A k \in 1..Len(sections) : sections[k].start < sections[k].end
        /\ \A k \in 1..(Len(sections) - 1) : sections[k].end = sections[k + 1].start

\* C2, as stated, for the tracks whose segmentation completes: the number of
\* sections is at least max(3, duration/120 + 2), the quotient being the real one.
C2_RealQuotient ==
    pc = "done" /\ path = "adaptive" =>
        /\ Len(sections) >= 3
        /\ Secs(120) * Len(sections) >= duration + 2 * Secs(120)

\* C2, amended: when the adaptive stage completes, the number of sections is
\* at least max(3, floor(duration/120) + 2); when it raises, the fallback
\* returns six sections, or one if the fallback raises as well.
C2_FloorQuotient ==
    pc = "done" =>
        /\ path = "adaptive" =>
              /\ Len(sections) >= 3
              /\ Secs(120) * (Len(sections) - 1) > duration
        /\ path = "template" => Len(sections) = 6
        /\ path = "fulltrack" => Len(sections) = 1

C2_Witness ==
    /\ pc = "done"
    /\ path = "adaptive"
    /\ duration = Secs(250)
    /\ bisections > 0
    /\ Len(sections) = 4

\* C4: no emitted Section has start >= end or an energy outside 0..100,
\* on the adaptive path and on both fallback paths.
C4_NoGarbageSection ==
    pc = "done" =>
        \A k \in 1..Len(sections) :
            /\ sections[k].start < sections[k].end
            /\ sections[k].energy \in 0..100

C7_DegenerateBoundaries ==
    (pc \in {"bisect", "fallback", "done"} /\ (peaks = <<>> \/ duration <= Secs(3))
        /\ err # "FeatureError") =>
        /\ err = "none"
        /\ (pc = "done" \/ ~(Len(merged) < MinSections(duration) + 1)) =>
              /\ merged[1] = 0
              /\ merged[Len(merged)] = duration
              /\ Len(merged) - 1 >= 3

----------------------------------------------------------------------------
\* The section lists detect_structure_adaptive returns for a novelty curve
\* without peaks, or through its fallback

NoPeakMerged(d) == MergeBoundaries(Boundaries(<<>>, d), d)

RECURSIVE BisectAll(_, _)
BisectAll(m, d) == IF Len(m) < MinSections(d) + 1 THEN BisectAll(Bisect(m), d) ELSE m

StructureResults(d, envs) ==
    {TemplateSections(d, Envelope(e, NFrames(d)), NFrames(d)) : e \in envs}
    \cup {FullTrackSections(d)}
    \cup (IF Len(NoPeakMerged(d)) >= 2
          THEN {AdaptiveSections(BisectAll(NoPeakMerged(d), d), d,
                                 Envelope(e, NFrames(d)), NFrames(d)) : e \in envs}
          ELSE {})

----------------------------------------------------------------------------
\* generate_temporal_arrangement_v2 and _fill_section_elements as a process,
\* started on the structure returned by detect_structure_adaptive

\* a track without samples has an all-zero spectrogram
EnergySeries(d, b) ==
    [0..(NWindows(d, b) - 1) -> IF d = 0 THEN {0} ELSE EnergyLevels]

InitArrangement ==
    /\ pc = "arrange"
    /\ \E t \in ArrTracks : duration = t[1] /\ bpm = t[2]
    /\ sections \in StructureResults(duration, ArrEnvelopes)
    /\ novelty = <<>>
    /\ rms_smooth = <<>>
    /\ min_frames = 0
    /\ threshold = 0
    /\ i = 0
    /\ peaks = <<>>
    /\ merged = <<>>
    /\ bisections = 0
    /\ path = "none"
    /\ err = "none"
    /\ track_elements = <<>>
    /\ eidx = 0
    /\ window_energies = <<>>
    /\ merged_blocks = <<>>
    /\ timeline = <<>>
    /\ skipped = {}
    /\ section_data = <<>>
    /\ results = <<>>
    /\ elem_role = "none"
    /\ covered_names = <<>>
    /\ block_intensity = 0
    /\ func = "none"
    /\ elem_energies = <<>>
    /\ order = <<>>

\* the list of elements to track
BuildCatalog ==
    /\ pc = "arrange"
    /\ \E present \in Detected(duration, bpm) : track_elements' = Catalog(present)
    /\ eidx' = 0
    /\ timeline' = <<>>
    /\ pc' = "elements"
    /\ UNCHANGED <<duration, bpm, sections, path, err, window_energies, merged_blocks, skipped>>
    /\ UNCHANGED scanVars
    /\ UNCHANGED clsVars

\* the iteration leaving the loop at a silent element instead of continuing
ProcessElementAbort ==
    /\ pc = "elements"
    /\ eidx < Len(track_elements)
    /\ \E we \in EnergySeries(duration, bpm) :
         LET elem == track_elements[eidx + 1]
             nw == NWindows(duration, bpm)
         IN /\ window_energies' = we
            /\ merged_blocks' = IF IsSilent(we, nw) THEN merged_blocks
                                ELSE ElementBlocks(elem, we, nw)
            /\ timeline' = IF IsSilent(we, nw) THEN SortTimeline(timeline)
                           ELSE timeline \o ElementItems(elem, we, nw, duration, bpm, sections)
            /\ skipped' = IF IsSilent(we, nw) THEN skipped \cup {elem.name} ELSE skipped
            /\ pc' = IF IsSilent(we, nw) THEN "fill" ELSE pc
    /\ eidx' = eidx + 1
    /\ UNCHANGED <<duration, bpm, sections, path, err, track_elements>>
    /\ UNCHANGED scanVars
    /\ UNCHANGED clsVars

\* one iteration of the loop over track_elements
ProcessElement ==
    /\ pc = "elements"
    /\ eidx < Len(track_elements)
    /\ \E we \in EnergySeries(duration, bpm) :
         LET elem == track_elements[eidx + 1]
             nw == NWindows(duration, bpm)
         IN /\ window_energies' = we
            /\ merged_blocks' = IF IsSilent(we, nw) THEN merged_blocks
                                ELSE ElementBlocks(elem, we, nw)
            /\ timeline' = timeline \o ElementItems(elem, we, nw, duration, bpm, sections)
            /\ skipped' = IF IsSilent(we, nw) THEN skipped \cup {elem.name} ELSE skipped
    /\ eidx' = eidx + 1
    /\ UNCHANGED <<pc, duration, bpm, sections, path, err, track_elements>>
    /\ UNCHANGED scanVars
    /\ UNCHANGED clsVars

\* the final sort and the return: the locals of the loop are gone
SortStep ==
    /\ pc = "elements"
    /\ eidx = Len(track_elements)
    /\ timeline' = SortTimeline(timeline)
    /\ window_energies' = <<>>
    /\ merged_blocks' = <<>>
    /\ pc' = "fill"
    /\ UNCHANGED <<duration, bpm, sections, path, err, track_elements, eidx, skipped>>
    /\ UNCHANGED scanVars
    /\ UNCHANGED clsVars

FillStep ==
    /\ pc = "fill"
    /\ sections' = FillSectionElements(sections, timeline)
    /\ pc' = "reported"
    /\ UNCHANGED <<duration, bpm, path, err>>
    /\ UNCHANGED arrVars
    /\ UNCHANGED scanVars
    /\ UNCHANGED clsVars

NextArrangement ==
    \/ BuildCatalog
    \/ ProcessElement
    \/ SortStep
    \/ FillStep

SpecArrangement == InitArrangement /\ [][NextArrangement]_vars

----------------------------------------------------------------------------
\* Properties of the timeline returned by generate_temporal_arrangement_v2

\* C3: the blocks of one element are time-ordered and pairwise disjoint, and
\* each spans at least 2 windows, or at least 1 when the role is impacto.
C3_BlocksOrderedAndLong ==
    /\ (pc = "elements" /\ eidx > 0
            /\ \E w \in DOMAIN window_energies : window_energies[w] > 0) =>
          /\ \A k \in 1..Len(merged_blocks) :
                /\ merged_blocks[k][1] >= 0
                /\ merged_blocks[k][2] <= NWindows(duration, bpm)
                /\ merged_blocks[k][2] - merged_blocks[k][1]
                      >= (IF track_elements[eidx].role = "impacto" THEN 1 ELSE 2)
          /\ \A k \in 1..(Len(merged_blocks) - 1) :
                merged_blocks[k][2] < merged_blocks[k + 1][1]
    /\ \A j, k \in 1..Len(timeline) :
          (j < k /\ timeline[j].element = timeline[k].element) =>
              /\ timeline[j].start < timeline[k].start
              /\ timeline[j].end <= timeline[k].start

C3_Witness ==
    /\ pc = "elements"
    /\ eidx > 0
    /\ track_elements[eidx].role = "groove"
    /\ merged_blocks = << <<0, 2>>, <<4, 6>> >>
    /\ Len(timeline) = 2
    /\ timeline[1].end <= timeline[2].start

\* C5: no emitted PresenceBlock has start >= end or an intensity outside 0..100.
C5_NoGarbageBlock ==
    \A k \in 1..Len(timeline) :
        /\ timeline[k].start < timeline[k].end
        /\ timeline[k].intensity \in 0..100

\* C8: an element whose window energies are all zero gets no block, so its
\* name is in no item of the timeline, and the loop goes on to visit every
\* other element before the timeline is returned.
C8_SilentElementOmitted ==
    /\ \A k \in 1..Len(timeline) : timeline[k].element \notin skipped
    /\ pc \in {"fill", "reported"} => eidx = Len(track_elements)

C8_Witness ==
    /\ pc = "reported"
    /\ Len(track_elements) = 2
    /\ skipped = {track_elements[1].name}
    /\ timeline # <<>>
    /\ \A k \in 1..Len(timeline) : timeline[k].element = track_elements[2].name

\* C9: a track of duration 0 yields exactly one Section, from 0 to 0, named
\* "Desenvolvimento" or "Full Track", and an empty timeline.
C9_ZeroDuration ==
    (duration = 0 /\ pc = "reported") =>
        /\ Len(sections) = 1
        /\ sections[1].start = 0
        /\ sections[1].end = 0
        /\ sections[1].name \in {"Desenvolvimento", "Full Track"}
        /\ timeline = <<>>

----------------------------------------------------------------------------
\* classify_sections_contextual applied to section lists of every length up
\* to MaxSections, with energies chosen freely

\* total sections of equal length with the given energies
SplitData(d, total, energies) ==
    [k \in 1..total |->
        [start |-> Round1(((k - 1) * d) \div total), end |-> Round1((k * d) \div total),
         energy |-> energies[k]]]

InitClassify ==
    /\ pc = "classify"
    /\ duration \in ClassifyDurations
    /\ \E total \in 0..MaxSections :
         \E en \in [1..total -> ClassifyEnergies] :
            section_data = SplitData(duration, total, en)
    /\ results = <<>>
    /\ elem_role = "none"
    /\ covered_names = <<>>
    /\ block_intensity = 0
    /\ func = "none"
    /\ elem_energies = <<>>
    /\ order = <<>>
    /\ bpm = 0
    /\ novelty = <<>>
    /\ rms_smooth = <<>>
    /\ min_frames = 0
    /\ threshold = 0
    /\ i = 0
    /\ peaks = <<>>
    /\ merged = <<>>
    /\ bisections = 0
    /\ sections = <<>>
    /\ path = "none"
    /\ err = "none"
    /\ track_elements = <<>>
    /\ eidx = 0
    /\ window_energies = <<>>
    /\ merged_blocks = <<>>
    /\ timeline = <<>>
    /\ skipped = {}

Classify ==
    /\ pc = "classify"
    /\ \E e \in Envelopes :
         /\ rms_smooth' = Envelope(e, NFrames(duration))
         /\ results' = classify_sections_contextual(section_data, duration, rms_smooth',
                                                    NFrames(duration))
    /\ pc' = "classified"
    /\ UNCHANGED <<duration, bpm, novelty, min_frames, threshold, i, peaks, merged,
                   bisections, sections, path, err, section_data>>
    /\ UNCHANGED arrVars
    /\ UNCHANGED fnVars
    /\ UNCHANGED ordVars

NextClassify == Classify

SpecClassify == InitClassify /\ [][NextClassify]_vars

\* C10: two sections are named "Intro" and "Outro", in that order, whatever
\* their energies, the duration and the energy envelope.
C10_TwoSections ==
    (pc = "classified" /\ Len(section_data) = 2) =>
        [k \in 1..Len(results) |-> results[k][1]] = <<"Intro", "Outro">>

C10_Witness ==
    /\ pc = "classified"
    /\ Len(section_data) = 2
    /\ section_data[1].energy = 90
    /\ section_data[2].energy = 10
    /\ results[1][1] = "Intro"
    /\ results[2][1] = "Outro"

C15_SortedPermutation ==
    [][(pc = "elements" /\ pc' = "fill") =>
          LET rank(it) == IF it.category = "Synths" THEN 0
                          ELSE IF it.category = "Drums" THEN 1
                          ELSE IF it.category = "Bass" THEN 2 ELSE 99
              leq(a, b) ==
                  \/ rank(a) < rank(b)
                  \/ /\ rank(a) = rank(b)
                     /\ \/ NameRank(a.element) < NameRank(b.element)
                        \/ a.element = b.element /\ a.start <= b.start
          IN /\ \A k \in 1..(Len(timeline') - 1) : leq(timeline'[k], timeline'[k + 1])
             /\ Len(timeline') = Len(timeline)
             /\ \A j \in 1..Len(timeline) :
                   Cardinality({k \in 1..Len(timeline) : timeline[k] = timeline[j]})
                     = Cardinality({k \in 1..Len(timeline') : timeline'[k] = timeline[j]})
      ]_vars

C15_Witness ==
    /\ pc = "fill"
    /\ Len(timeline) >= 2
    /\ track_elements[1].category = "Drums"
    /\ timeline[1].category = "Synths"
    /\ timeline[Len(timeline)].category = "Drums"

\* C16: after _fill_section_elements each section's elements_entering is
\* exactly the first 8, in timeline order, of the names of the blocks whose
\* start lies in [section.start, section.end).
C16_EnteringExact ==
    pc = "reported" =>
        \A s \in 1..Len(sections) :
            LET idx == {k \in 1..Len(timeline) :
                           /\ sections[s].start <= timeline[k].start
                           /\ timeline[k].start < sections[s].end}
                ent == sections[s].elements_entering
            IN /\ Len(ent) = Min(8, Cardinality(idx))
               /\ \A k \in idx :
                     Cardinality({m \in idx : m <= k}) <= 8
                        => ent[Cardinality({m \in idx : m <= k})] = timeline[k].element

\* C17: after _fill_section_elements each section's elements_exiting is
\* exactly the first 8, in timeline order, of the names of the blocks that end
\* within the section and start before section.start.
C17_ExitingExact ==
    pc = "reported" =>
        \A s \in 1..Len(sections) :
            LET idx == {k \in 1..Len(timeline) :
                           /\ sections[s].start < timeline[k].end
                           /\ timeline[k].end <= sections[s].end
                           /\ timeline[k].start < sections[s].start}
                ext == sections[s].elements_exiting
            IN /\ Len(ext) = Min(8, Cardinality(idx))
               /\ \A k \in idx :
                     Cardinality({m \in idx : m <= k}) <= 8
                        => ext[Cardinality({m \in idx : m <= k})] = timeline[k].element

\* C18: _fill_section_elements changes nothing but the elements_entering and
\* elements_exiting lists: the number and order of the sections, their start,
\* end, name, function and energy, and the whole timeline stay as they were.
C18_FillFrame ==
    [][(pc = "fill" /\ pc' = "reported") =>
          /\ Len(sections') = Len(sections)
          /\ \A k \in 1..Len(sections) :
                /\ sections'[k].start = sections[k].start
                /\ sections'[k].end = sections[k].end
                /\ sections'[k].name = sections[k].name
                /\ sections'[k].function = sections[k].function
                /\ sections'[k].energy = sections[k].energy
          /\ timeline' = timeline
      ]_vars

C18_Witness ==
    /\ pc = "reported"
    /\ Len(sections) = 3
    /\ sections[1].elements_entering = <<"Hi-Hat (fechados)">>
    /\ sections[2].elements_entering = <<>>
    /\ sections[3].elements_exiting = <<"Hi-Hat (fechados)">>

\* C19: of three or more sections the first is named "Intro" and the last
\* "Outro", whatever the energies and the trends.
C19_IntroOutroForced ==
    (pc = "classified" /\ Len(section_data) >= 3) =>
        /\ Len(results) = Len(section_data)
        /\ results[1][1] = "Intro"
        /\ results[Len(results)][1] = "Outro"

C19_Witness ==
    /\ pc = "classified"
    /\ Len(section_data) = 5
    /\ section_data[1].energy = 90
    /\ section_data[5].energy = 90
    /\ section_data[3].energy = 10
    /\ results[1][1] = "Intro"
    /\ results[5][1] = "Outro"

----------------------------------------------------------------------------
\* determine_element_function called on its own, as the block loop calls it:
\* the role of a catalog element, the distinct names of the sections a block
\* overlaps and the clamped intensity of the block.

MaxCovered == 2

\* the role values of the catalog
Roles == {"base", "groove", "impacto", "textura"}

\* the section names the structure analysis produces
CoveredNames == {"Intro", "Build-up", "Drop / Peak", "Drop 2", "Breakdown", "Outro",
                 "Desenvolvimento", "Segunda Variacao", "Full Track"}

\* covered holds each name once
CoveredLists(n) ==
    UNION {{c \in [1..k -> CoveredNames] :
               \A a, b \in 1..k : a # b => c[a] # c[b]} : k \in 0..n}

InitFunction ==
    /\ pc = "function"
    /\ elem_role \in Roles
    /\ covered_names \in CoveredLists(MaxCovered)
    /\ block_intensity \in 0..100
    /\ func = "none"
    /\ elem_energies = <<>>
    /\ order = <<>>
    /\ duration = 0
    /\ bpm = 0
    /\ novelty = <<>>
    /\ rms_smooth = <<>>
    /\ min_frames = 0
    /\ threshold = 0
    /\ i = 0
    /\ peaks = <<>>
    /\ merged = <<>>
    /\ bisections = 0
    /\ sections = <<>>
    /\ path = "none"
    /\ err = "none"
    /\ track_elements = <<>>
    /\ eidx = 0
    /\ window_energies = <<>>
    /\ merged_blocks = <<>>
    /\ timeline = <<>>
    /\ skipped = {}
    /\ section_data = <<>>
    /\ results = <<>>

DetermineFunction ==
    /\ pc = "function"
    /\ func' = determine_element_function(elem_role, covered_names, block_intensity)
    /\ pc' = "returned"
    /\ UNCHANGED <<elem_role, covered_names, block_intensity>>
    /\ UNCHANGED <<duration, bpm, sections, path, err, section_data, results>>
    /\ UNCHANGED scanVars
    /\ UNCHANGED arrVars
    /\ UNCHANGED ordVars

NextFunction == DetermineFunction

SpecFunction == InitFunction /\ [][NextFunction]_vars

\* C20: the function of a block follows the role table: impacto gives
\* transicao; base gives energia over a drop or peak, else tensao over a
\* build-up, else groove; groove gives energia over a drop or peak with an
\* intensity above 60, else tensao over a build-up, else groove; textura gives
\* textura over a breakdown, intro or outro, else tensao over a build-up, else
\* textura; and the result is one of the five function names.
C20_RoleTable ==
    pc = "returned" =>
        LET over_drop == \E k \in 1..Len(covered_names) : covered_names[k] \in DropNames
            over_build == \E k \in 1..Len(covered_names) : covered_names[k] = "Build-up"
            over_calm == \E k \in 1..Len(covered_names) :
                             covered_names[k] \in {"Breakdown", "Intro", "Outro"}
        IN /\ elem_role = "impacto" => func = "transicao"
           /\ (elem_role = "base" /\ over_drop) => func = "energia"
           /\ (elem_role = "base" /\ ~over_drop /\ over_build) => func = "tensao"
           /\ (elem_role = "base" /\ ~over_drop /\ ~over_build) => func = "groove"
           /\ (elem_role = "groove" /\ over_drop /\ block_intensity > 60)
                 => func = "energia"
           /\ (elem_role = "groove" /\ ~(over_drop /\ block_intensity > 60) /\ over_build)
                 => func = "tensao"
           /\ (elem_role = "groove" /\ ~(over_drop /\ block_intensity > 60) /\ ~over_build)
                 => func = "groove"
           /\ (elem_role = "textura" /\ over_calm) => func = "textura"
           /\ (elem_role = "textura" /\ ~over_calm /\ over_build) => func = "tensao"
           /\ (elem_role = "textura" /\ ~over_calm /\ ~over_build) => func = "textura"
           /\ func \in {"groove", "tensao", "transicao", "energia", "textura"}

C20_Witness ==
    /\ pc = "returned"
    /\ elem_role = "groove"
    /\ covered_names = <<"Build-up", "Drop / Peak">>
    /\ block_intensity = 60
    /\ func = "tensao"

----------------------------------------------------------------------------
\* Properties of the peak scan and of the boundary list

\* C21: every accepted peak lies at least the minimum distance (16 beats
\* when the tempo is known, 16 seconds otherwise) after the previously
\* accepted boundary, the track start at 0 being the first boundary.
C21_MinDistanceFromPrevious ==
    pc \in {"scan", "merge", "bisect", "done"} =>
        LET min_dist == IF bpm > 0 THEN (Secs(60) * 16) \div bpm ELSE Secs(16)
            b == Boundaries(peaks, duration)
        IN \A k \in 1..Len(peaks) : b[k + 1] - b[k] >= min_dist

\* C22, as stated: after the 10-second merge and the snap or append of the
\* final boundary, and before the bisection, no two consecutive boundaries
\* are closer than 10 seconds, the last pair included.
C22_NoPairCloserThanTen ==
    (pc = "bisect" /\ bisections = 0) =>
        \A k \in 1..(Len(merged) - 1) : merged[k + 1] - merged[k] >= Secs(10)

\* C22, amended: after the merge and the snap or append, and before the
\* bisection, every pair of consecutive boundaries other than the last is at
\* least 10 seconds apart, the last pair is more than 3 seconds apart, and the
\* last boundary is the duration.
C22_MergedSpacing ==
    (pc = "bisect" /\ bisections = 0) =>
        /\ \A k \in 1..(Len(merged) - 2) : merged[k + 1] - merged[k] >= Secs(10)
        /\ Len(merged) >= 2 => merged[Len(merged)] - merged[Len(merged) - 1] > Secs(3)
        /\ merged[Len(merged)] = duration

C22_Witness ==
    /\ pc = "bisect"
    /\ bisections = 0
    /\ duration = Secs(8)
    /\ merged = <<0, Secs(8)>>

\* C23: when the post-processing leaves fewer sections than the minimum, the
\* bisection loop ends without error after exactly (minimum - count)
\* iterations; every iteration adds one boundary and keeps the existing ones,
\* so exactly the minimum number of sections results and the list stays
\* strictly increasing.
C23_BisectionCompletes ==
    LET m0 == MergeBoundaries(Boundaries(peaks, duration), duration)
        todo == MinSections(duration) - (Len(m0) - 1)
    IN (pc \in {"bisect", "fallback", "done"} /\ err # "FeatureError" /\ todo > 0) =>
          /\ err = "none"
          /\ bisections <= todo
          /\ Len(merged) = Len(m0) + bisections
          /\ \A k \in 1..Len(m0) : \E j \in 1..Len(merged) : merged[j] = m0[k]
          /\ \A k \in 1..(Len(merged) - 1) : merged[k] < merged[k + 1]
          /\ pc = "done" =>
                /\ bisections = todo
                /\ Len(merged) - 1 = MinSections(duration)

----------------------------------------------------------------------------
\* Properties of the presence blocks of one element

\* C24: after the merge of one-window gaps, every block starts and ends on a
\* present window and holds no two adjacent non-present windows (runs one
\* window apart are merged, also along a chain), every present window lies in
\* a block, and two consecutive blocks are separated by at least two windows,
\* all of them non-present (runs two or more windows apart are never merged).
C24_MergeOneWindowGaps ==
    (pc = "elements" /\ eidx > 0 /\ ~IsSilent(window_energies, NWindows(duration, bpm))) =>
        LET nw == NWindows(duration, bpm)
            presence == Presence(window_energies, nw, track_elements[eidx].threshold_pct)
            mb == MergeGaps(Runs(presence, nw))
        IN /\ \A k \in 1..Len(mb) :
                /\ 0 <= mb[k][1] /\ mb[k][1] < mb[k][2] /\ mb[k][2] <= nw
                /\ presence[mb[k][1]] /\ presence[mb[k][2] - 1]
                /\ \A w \in mb[k][1]..(mb[k][2] - 2) : presence[w] \/ presence[w + 1]
           /\ \A w \in 0..(nw - 1) :
                presence[w] => \E k \in 1..Len(mb) : mb[k][1] <= w /\ w < mb[k][2]
           /\ \A k \in 1..(Len(mb) - 1) :
                /\ mb[k + 1][1] - mb[k][2] >= 2
                /\ \A w \in mb[k][2]..(mb[k + 1][1] - 1) : ~presence[w]

C24_Witness ==
    /\ pc = "elements"
    /\ eidx > 0
    /\ NWindows(duration, bpm) = 6
    /\ [w \in 1..6 |-> window_energies[w - 1]] = <<3, 0, 3, 0, 0, 3>>
    /\ MergeGaps(Runs(Presence(window_energies, 6, track_elements[eidx].threshold_pct), 6))
          = << <<0, 3>>, <<5, 6>> >>
    /\ merged_blocks = << <<0, 3>> >>

\* C25: a block is "pontual" if and only if it spans fewer than 3 windows,
\* and a block of 3 or more windows is "intermitente" or "continuo", whatever
\* the window length, the rounding of its times and the clamp of its end.
C25_PontualIffUnderThreeWindows ==
    (pc = "elements" /\ eidx > 0 /\ ~IsSilent(window_energies, NWindows(duration, bpm))) =>
        \A k \in 1..Len(merged_blocks) :
            LET item == timeline[Len(timeline) - Len(merged_blocks) + k]
                span == merged_blocks[k][2] - merged_blocks[k][1]
            IN /\ (item.behavior = "pontual") <=> (span < 3)
               /\ span >= 3 => item.behavior \in {"intermitente", "continuo"}

----------------------------------------------------------------------------
\* The element loop of generate_temporal_arrangement_v2 with the order of
\* its iterations left open: every element of the catalog has its own
\* window-energy series, and the loop visits the catalog in any order (the
\* code's own order is the identity).

OrderInputs ==
    { <<Secs(16), 0, {"Kick (seco)", "Hi-Hat (fechados)"}>>,
      <<Secs(16), 0, {"Kick (seco)", "FX (risers, sweeps)"}>> }

Perms(n) == {p \in [1..n -> 1..n] : \A a, b \in 1..n : a # b => p[a] # p[b]}

InitOrder ==
    /\ pc = "elements"
    /\ \E t \in OrderInputs :
         /\ duration = t[1]
         /\ bpm = t[2]
         /\ track_elements = Catalog(t[3])
    /\ sections \in StructureResults(duration, ArrEnvelopes)
    /\ elem_energies \in [1..Len(track_elements) -> EnergySeries(duration, bpm)]
    /\ order \in Perms(Len(track_elements))
    /\ eidx = 0
    /\ timeline = <<>>
    /\ window_energies = <<>>
    /\ merged_blocks = <<>>
    /\ skipped = {}
    /\ novelty = <<>>
    /\ rms_smooth = <<>>
    /\ min_frames = 0
    /\ threshold = 0
    /\ i = 0
    /\ peaks = <<>>
    /\ merged = <<>>
    /\ bisections = 0
    /\ path = "none"
    /\ err = "none"
    /\ section_data = <<>>
    /\ results = <<>>
    /\ elem_role = "none"
    /\ covered_names = <<>>
    /\ block_intensity = 0
    /\ func = "none"

\* one iteration of the loop, on the element the order names next
ProcessScheduled ==
    /\ pc = "elements"
    /\ eidx < Len(track_elements)
    /\ LET elem == track_elements[order[eidx + 1]]
           we == elem_energies[order[eidx + 1]]
           nw == NWindows(duration, bpm)
       IN /\ window_energies' = we
          /\ merged_blocks' = IF IsSilent(we, nw) THEN merged_blocks
                              ELSE ElementBlocks(elem, we, nw)
          /\ timeline' = timeline \o ElementItems(elem, we, nw, duration, bpm, sections)
          /\ skipped' = IF IsSilent(we, nw) THEN skipped \cup {elem.name} ELSE skipped
    /\ eidx' = eidx + 1
    /\ UNCHANGED <<pc, duration, bpm, sections, path, err, track_elements>>
    /\ UNCHANGED scanVars
    /\ UNCHANGED clsVars

NextOrder ==
    \/ ProcessScheduled
    \/ SortStep

SpecOrder == InitOrder /\ [][NextOrder]_vars

\* the timeline the loop builds when it visits the catalog from element k on
\* in the catalog's own order
RECURSIVE TimelineFrom(_, _, _, _, _, _, _)
TimelineFrom(elems, energies, k, nw, d, b, secs) ==
    IF k > Len(elems) THEN <<>>
    ELSE ElementItems(elems[k], energies[k], nw, d, b, secs)
         \o TimelineFrom(elems, energies, k + 1, nw, d, b, secs)

----------------------------------------------------------------------------
\* Properties of the contextual classification, continued

\* C27: of three or more sections, an interior one with an energy above 60 is
\* named "Build-up" or a drop; it is "Build-up" exactly when it is rising and
\* either exceeds the previous section by more than 10 or is not a local
\* peak, and a drop in every other case.
C27_HighEnergyInterior ==
    (pc = "classified" /\ Len(section_data) >= 3) =>
        \A k \in 2..(Len(section_data) - 1) :
            LET energy == section_data[k].energy
                prev_energy == section_data[k - 1].energy
                next_energy == section_data[k + 1].energy
                rising == Trend(section_data[k], rms_smooth, NFrames(duration))[1]
                local_peak == energy > prev_energy + 5 /\ energy > next_energy + 5
                buildup == rising /\ (energy - prev_energy > 10 \/ ~local_peak)
            IN energy > 60 =>
                  /\ results[k][1] \in {"Build-up"} \cup DropNames
                  /\ (results[k][1] = "Build-up") <=> buildup
                  /\ (results[k][1] \in DropNames) <=> ~buildup

C27_Witness ==
    /\ pc = "classified"
    /\ Len(section_data) = 4
    /\ [k \in 1..4 |-> section_data[k].energy] = <<90, 90, 82, 10>>
    /\ Trend(section_data[2], rms_smooth, NFrames(duration))[1]
    /\ ~Trend(section_data[3], rms_smooth, NFrames(duration))[1]
    /\ results[2][1] = "Build-up"
    /\ results[3][1] = "Drop / Peak"

----------------------------------------------------------------------------
\* Progress of the peak scan

\* C28: every iteration of the scan loop strictly increases the scan position,
\* also the one that accepts a local maximum lying before it, the position
\* stays below the number of frames plus the window half-width (so the loop
\* ends), and the accepted peaks stay strictly increasing.
C28_ScanAdvances ==
    [][(pc = "scan" /\ pc' = "scan") =>
          /\ i' > i
          /\ i' < NFrames(duration) + HalfWin
          /\ Len(peaks') >= Len(peaks)
          /\ \A k \in 1..(Len(peaks') - 1) : peaks'[k] < peaks'[k + 1]
      ]_vars

C28_Witness ==
    /\ pc = "scan"
    /\ min_frames = 8
    /\ peaks = <<7>>
    /\ i = 15

----------------------------------------------------------------------------
\* Presence of the windows of one element

\* C29: for an element that is not skipped as silent, a window holding the
\* minimum window energy is never marked present; so an element whose window
\* energies are all equal and not zero gets no block and no item of the
\* timeline, although it is not skipped.
C29_MinimumWindowAbsent ==
    (pc = "elements" /\ eidx > 0 /\ ~IsSilent(window_energies, NWindows(duration, bpm))) =>
        LET nw == NWindows(duration, bpm)
            elem == track_elements[eidx]
            presence == Presence(window_energies, nw, elem.threshold_pct)
            is_min(w) == \A v \in 0..(nw - 1) : window_energies[w] <= window_energies[v]
        IN /\ \A w \in 0..(nw - 1) : is_min(w) => ~presence[w]
           /\ (\A w \in 0..(nw - 1) : is_min(w)) =>
                 /\ merged_blocks = <<>>
                 /\ \A k \in 1..Len(timeline) : timeline[k].element # elem.name
                 /\ elem.name \notin skipped

C29_Witness ==
    /\ pc = "elements"
    /\ eidx = 1
    /\ NWindows(duration, bpm) = 6
    /\ \A w \in 0..5 : window_energies[w] = 3
    /\ merged_blocks = <<>>
    /\ timeline = <<>>
    /\ skipped = {}

----------------------------------------------------------------------------
\* Entering and exiting counts over a tiling section list

\* C30: when the sections tile [0, duration], then, before the cut to 8
\* names, every block starting in [0, duration) enters exactly one section,
\* every block exits at most one section, and no block both enters and exits
\* the same section.
C30_EnterOnceExitAtMostOnce ==
    (/\ pc \in {"fill", "reported"}
     /\ sections # <<>>
     /\ sections[1].start = 0
     /\ sections[Len(sections)].end = duration
     /\ \A k \in 1..Len(sections) : sections[k].start <= sections[k].end
     /\ \A k \in 1..(Len(sections) - 1) : sections[k].end = sections[k + 1].start) =>
        \A j \in 1..Len(timeline) :
            LET enters == {k \in 1..Len(sections) :
                               Entering(sections[k], <<timeline[j]>>) # <<>>}
                exits == {k \in 1..Len(sections) :
                              Exiting(sections[k], <<timeline[j]>>) # <<>>}
            IN /\ (0 <= timeline[j].start /\ timeline[j].start < duration)
                     => Cardinality(enters) = 1
               /\ Cardinality(exits) <= 1
               /\ enters \cap exits = {}

C30_Witness ==
    /\ pc = "reported"
    /\ duration = Secs(24)
    /\ Len(sections) = 3
    /\ sections[1].start = 0
    /\ sections[2].start = sections[1].end
    /\ sections[3].start = sections[2].end
    /\ sections[3].end = duration
    /\ Len(timeline) = 1
    /\ timeline[1].start = 0
    /\ timeline[1].end = Secs(24)
    /\ Entering(sections[1], timeline) = <<"Hi-Hat (fechados)">>
    /\ Entering(sections[2], timeline) = <<>>
    /\ Exiting(sections[2], timeline) = <<>>
    /\ Exiting(sections[3], timeline) = <<"Hi-Hat (fechados)">>

====
